---------------------------- MODULE Spec2Model ----------------------------
(***************************************************************************)
(* Verification model of the treys poker-hand lookup tables                *)
(* (src/treys/lookup.py) and of the Omaha evaluator                        *)
(* (src/omaha/omahaevaluator.py).                                          *)
(*                                                                         *)
(* Specifications:                                                         *)
(*   Spec          LookupTable.build(): the five-card rank table           *)
(*   SpecNextWord  next_word(bits): the bit-sequence generator             *)
(*   SpecOmaha     OmahaEvaluator: calls on lists of 4 to MaxCards cards   *)
(*   SpecDraw      LookupTableThreeCards.build() and                       *)
(*                 LookupTableFourCards.build(): the draw tables           *)
(***************************************************************************)
EXTENDS Integers, Sequences, FiniteSets, TLC

VARIABLES
    table,     \* the class whose constructor runs or has run ("none" if none)
    pc,        \* position of the table constructor (name of the running loop)
    idx,       \* 1-based position of the running loop in the list it iterates
    rank,      \* the local rank counter of the build_* methods
    co,        \* the local counter co of the draw tables' straight loops
    flush,     \* self.flush    : prime product -> value
    unsuited,  \* self.unsuited : prime product -> value
    bits,      \* next_word: the seed argument
    w,         \* next_word: the local w, the word last yielded
    pulled,    \* number of next(gen) calls the consumer has made
    cards,     \* the evaluator's input: the list of cards of the running call
    handler,   \* the method hand_size_map dispatched the call to
    epc,       \* position of the evaluator call
    minimum,   \* _eightnineten: the local minimum
    ci,        \* _eightnineten: 1-based position in all5cardscombos
    result     \* <<r>> once the call has returned rank r, <<>> otherwise

tblvars == <<table, pc, idx, rank, co, flush, unsuited>>
genvars == <<bits, w, pulled>>
evalvars == <<cards, handler, epc, minimum, ci, result>>
vars == <<tblvars, genvars, evalvars>>

-----------------------------------------------------------------------------
(* Python's integer bit operators on the non-negative words used by the     *)
(* tables.  BitAnd admits a negative right operand: \div and % round        *)
(* towards minus infinity, which is two's complement with infinite sign     *)
(* extension, as in Python.                                                 *)

RECURSIVE BitAnd(_, _)
BitAnd(a, b) ==
    IF a = 0 THEN 0
    ELSE (a % 2) * (b % 2) + 2 * BitAnd(a \div 2, b \div 2)

RECURSIVE BitOr(_, _)
BitOr(a, b) ==
    IF a = 0 THEN b
    ELSE IF b = 0 THEN a
    ELSE (IF a % 2 = 1 \/ b % 2 = 1 THEN 1 ELSE 0) + 2 * BitOr(a \div 2, b \div 2)

RECURSIVE BitXor(_, _)
BitXor(a, b) ==
    IF a = 0 THEN b
    ELSE IF b = 0 THEN a
    ELSE ((a + b) % 2) + 2 * BitXor(a \div 2, b \div 2)

RECURSIVE ShiftLeft(_, _)
ShiftLeft(a, n) ==
    IF n = 0 THEN a ELSE ShiftLeft(2 * a, n - 1)

RECURSIVE ShiftRight(_, _)
ShiftRight(a, n) ==
    IF n = 0 THEN a ELSE ShiftRight(a \div 2, n - 1)

\* next_word: the word of the first yield, from the seed
NextWordFirst(seed) ==
    LET t == BitOr(seed, seed - 1) + 1
    IN  BitOr(t, ShiftRight(BitAnd(t, -t) \div BitAnd(seed, -seed), 1) - 1)

NextWordLoop_NoShift(word) ==
    LET t == BitOr(word, word - 1) + 1
    IN  BitOr(t, (BitAnd(t, -t) \div BitAnd(word, -word)) - 1)

\* next_word: the word of a later yield, from the word yielded before
NextWordLoop(word) ==
    LET t == BitOr(word, word - 1) + 1
    IN  BitOr(t, ShiftRight(BitAnd(t, -t) \div BitAnd(word, -word), 1) - 1)

\* the next n yields of a running generator whose last yield was word: the
\* first half of them, then those that follow the last word of that half
RECURSIVE TakeNext(_, _)
TakeNext(word, n) ==
    IF n = 0 THEN <<>>
    ELSE IF n = 1 THEN <<NextWordLoop(word)>>
    ELSE LET half == TakeNext(word, n \div 2)
         IN  half \o TakeNext(half[Len(half)], n - (n \div 2))

\* [next(gen) for _ in range(n)] of a fresh gen = next_word(seed)
TakeWords(seed, n) ==
    IF n = 0 THEN <<>>
    ELSE <<NextWordFirst(seed)>> \o TakeNext(NextWordFirst(seed), n - 1)

-----------------------------------------------------------------------------
(* The card module's interface (card.PRIMES, card.product_from_rankbits).   *)

PRIMES == <<2, 3, 5, 7, 11, 13, 17, 19, 23, 29, 31, 37, 41>>

\* card.PRIMES[i] for a 0-based rank index i
Prime(i) == PRIMES[i + 1]

RECURSIVE ProductOfBits(_, _)
ProductOfBits(rankbits, i) ==
    IF rankbits = 0 THEN 1
    ELSE (IF rankbits % 2 = 1 THEN Prime(i) ELSE 1)
            * ProductOfBits(rankbits \div 2, i + 1)

\* second component of card.product_from_rankbits(rankbits)
product_from_rankbits(rankbits) == ProductOfBits(rankbits, 0)

-----------------------------------------------------------------------------
(* Python list helpers.                                                     *)

Range(s) == {s[i] : i \in 1..Len(s)}

Reverse(s) == [i \in 1..Len(s) |-> s[Len(s) + 1 - i]]

\* list(l); l.remove(x)  -- removes the first occurrence of x
RemoveFirst(l, x) ==
    LET p == CHOOSE i \in 1..Len(l) : l[i] = x /\ \A j \in 1..(i - 1) : l[j] # x
    IN  [i \in 1..(Len(l) - 1) |-> IF i < p THEN l[i] ELSE l[i + 1]]

\* the concatenation of a list of lists
RECURSIVE Flatten(_)
Flatten(ss) ==
    IF Len(ss) = 0 THEN <<>>
    ELSE IF Len(ss) = 1 THEN ss[1]
    ELSE Flatten(SubSeq(ss, 1, Len(ss) \div 2))
            \o Flatten(SubSeq(ss, Len(ss) \div 2 + 1, Len(ss)))

\* list(itertools.combinations(l, r)): r-tuples of l in lexicographic order
\* of positions: those with the head of l (with names the tails they
\* continue with), then those without
RECURSIVE Combinations(_, _)
Combinations(l, r) ==
    IF r = 0 THEN << <<>> >>
    ELSE IF Len(l) < r THEN <<>>
    ELSE CHOOSE all \in
            {[i \in 1..Len(with) |-> <<Head(l)>> \o with[i]]
                \o Combinations(Tail(l), r)
                  : with \in {Combinations(Tail(l), r - 1)}} : TRUE

\* d[k] = v on a dict d
Store(d, k, v) == (k :> v) @@ d

EmptyDict == <<>>

-----------------------------------------------------------------------------
(* class LookupTable                                                        *)

LT_MAX_STRAIGHT_FLUSH == 10
LT_MAX_FOUR_OF_A_KIND == 166
LT_MAX_FULL_HOUSE == 322
LT_MAX_FLUSH == 1599
LT_MAX_STRAIGHT == 1609
LT_MAX_THREE_OF_A_KIND == 2467
LT_MAX_TWO_PAIR == 3325
LT_MAX_PAIR == 6185
LT_MAX_HIGH_CARD == 7462

\* build_flushes: the literal list straight_flushes
straight_flushes == <<7936, 3968, 1984, 992, 496, 248, 124, 62, 31, 4111>>

notSF_ForgetsWheel(f) ==
    \A i \in 1..(Len(straight_flushes) - 1) : BitXor(f, straight_flushes[i]) # 0

\* build_flushes: notSF after the inner loop over straight_flushes
notSF(f) == \A i \in 1..Len(straight_flushes) : BitXor(f, straight_flushes[i]) # 0

\* build_flushes: the words pulled from gen = next_word(0b11111)
LT_generated == TakeWords(31, 1277 + Len(straight_flushes) - 1)

flushes_NotReversed == SelectSeq(LT_generated, notSF)

\* build_flushes: the list flushes after flushes.reverse()
flushes == Reverse(SelectSeq(LT_generated, notSF))

backwards_ranks_Ascending == [i \in 1..13 |-> i - 1]

\* build_multiples: backwards_ranks = list(range(13 - 1, -1, -1))
backwards_ranks == [i \in 1..13 |-> 13 - i]

\* build_multiples: for each i of the outer loop "for i in backwards_ranks",
\* the (i, k) visited by its inner loop "kickers = list(backwards_ranks);
\* kickers.remove(i); for k in kickers"
RankKickerPairs ==
    [a \in 1..Len(backwards_ranks) |->
        LET i == backwards_ranks[a]
            kickers == RemoveFirst(backwards_ranks, i)
        IN  [b \in 1..Len(kickers) |-> <<i, kickers[b]>>]]

\* build_multiples: for each r of the outer loop, the (r, c1, c2) visited by
\* the inner loop over itertools.combinations(kickers, 2)
TripsIter ==
    [a \in 1..Len(backwards_ranks) |->
        LET r == backwards_ranks[a]
            gen == Combinations(RemoveFirst(backwards_ranks, r), 2)
        IN  [b \in 1..Len(gen) |-> <<r>> \o gen[b]]]

\* build_multiples: for each tp of the outer loop over
\* itertools.combinations(backwards_ranks, 2), the (pair1, pair2, kicker)
\* visited by the inner loop over kickers
TwoPairIter ==
    LET tpgen == Combinations(backwards_ranks, 2)
    IN  [a \in 1..Len(tpgen) |->
            LET kickers == RemoveFirst(RemoveFirst(backwards_ranks, tpgen[a][1]),
                                       tpgen[a][2])
            IN  [b \in 1..Len(kickers) |-> tpgen[a] \o <<kickers[b]>>]]

\* build_multiples: for each pairrank of the outer loop, the
\* (pairrank, k1, k2, k3) visited by the inner loop over
\* itertools.combinations(kickers, 3)
PairIter ==
    [a \in 1..Len(backwards_ranks) |->
        LET pairrank == backwards_ranks[a]
            kgen == Combinations(RemoveFirst(backwards_ranks, pairrank), 3)
        IN  [b \in 1..Len(kgen) |-> <<pairrank>> \o kgen[b]]]

Pow(b, e) == IF e = 2 THEN b * b ELSE IF e = 3 THEN b * b * b ELSE b * b * b * b

\* the products formed in build_multiples
QuadProduct(i, k) == Pow(Prime(i), 4) * Prime(k)
FullHouseProduct_Squares(i, pr) == Pow(Prime(i), 2) * Pow(Prime(pr), 2)
FullHouseProduct(i, pr) == Pow(Prime(i), 3) * Pow(Prime(pr), 2)
TripsProduct(r, c1, c2) == Pow(Prime(r), 3) * Prime(c1) * Prime(c2)
TwoPairProduct(pair1, pair2, kicker) ==
    Pow(Prime(pair1), 2) * Pow(Prime(pair2), 2) * Prime(kicker)
PairProduct(pairrank, k1, k2, k3) ==
    Pow(Prime(pairrank), 2) * Prime(k1) * Prime(k2) * Prime(k3)

\* The work of each top-level for statement of build(), as the list of its
\* steps: a loop whose body is a single write runs in one step (one list of
\* all its elements), a nested loop takes one step per iteration of the outer
\* loop (the list of the elements its inner loop visits).
LT_Steps(p) ==
    CASE p = "straight_flushes" -> <<straight_flushes>>
      [] p = "flushes"          -> <<flushes>>
      [] p = "straights"        -> <<straight_flushes>>
      [] p = "highcards"        -> <<flushes>>
      [] p = "quads"            -> RankKickerPairs
      [] p = "full_house"       -> RankKickerPairs
      [] p = "trips"            -> TripsIter
      [] p = "two_pair"         -> TwoPairIter
      [] p = "pair"             -> PairIter

\* the assignment to rank that precedes each for statement
LT_StartRank(p) ==
    CASE p = "straight_flushes" -> 1
      [] p = "flushes"          -> LT_MAX_FULL_HOUSE + 1
      [] p = "straights"        -> LT_MAX_FLUSH + 1
      [] p = "highcards"        -> LT_MAX_PAIR + 1
      [] p = "quads"            -> LT_MAX_STRAIGHT_FLUSH + 1
      [] p = "full_house"       -> LT_MAX_FOUR_OF_A_KIND + 1
      [] p = "trips"            -> LT_MAX_STRAIGHT + 1
      [] p = "two_pair"         -> LT_MAX_THREE_OF_A_KIND + 1
      [] p = "pair"             -> LT_MAX_TWO_PAIR + 1

\* the for statements of build() in execution order
LT_Order ==
    <<"straight_flushes", "flushes", "straights", "highcards", "quads",
      "full_house", "trips", "two_pair", "pair", "done">>

LT_NextLoop(p) == LT_Order[1 + CHOOSE i \in 1..9 : LT_Order[i] = p]

\* the key written by the iteration at element x of loop p
LT_Key(p, x) ==
    CASE p \in {"straight_flushes", "flushes", "straights", "highcards"}
                          -> product_from_rankbits(x)
      [] p = "quads"      -> QuadProduct(x[1], x[2])
      [] p = "full_house" -> FullHouseProduct(x[1], x[2])
      [] p = "trips"      -> TripsProduct(x[1], x[2], x[3])
      [] p = "two_pair"   -> TwoPairProduct(x[1], x[2], x[3])
      [] p = "pair"       -> PairProduct(x[1], x[2], x[3], x[4])

\* whether the loop p writes self.flush (otherwise self.unsuited)
LT_WritesFlush(p) == p \in {"straight_flushes", "flushes"}

\* one execution of a loop body, at the element items[st.i]:
\* "product = ...; self.<table>[product] = rank; rank += 1"
LT_Body(p, st, items) ==
    IF LT_WritesFlush(p)
    THEN [st EXCEPT !.flush = Store(@, LT_Key(p, items[st.i]), st.rank),
                    !.rank = @ + 1, !.i = @ + 1]
    ELSE [st EXCEPT !.unsuited = Store(@, LT_Key(p, items[st.i]), st.rank),
                    !.rank = @ + 1, !.i = @ + 1]

\* the loop body executed at items[st.i], ..., items[hi] in this order (up
\* to the middle of the range first, then on from where that ended)
RECURSIVE LT_Run(_, _, _, _)
LT_Run(p, st, items, hi) ==
    IF st.i > hi THEN st
    ELSE IF st.i = hi THEN LT_Body(p, st, items)
    ELSE LT_Run(p, LT_Run(p, st, items, (st.i + hi) \div 2), items, hi)

\* build() after "self.flush = OrderedDict(); self.unsuited = OrderedDict()";
\* rank is not assigned yet (0)
LT_Init ==
    /\ table = "LookupTable"
    /\ pc = "straight_flushes"
    /\ idx = 1
    /\ rank = 0
    /\ co = 0
    /\ flush = EmptyDict
    /\ unsuited = EmptyDict

\* step idx of the for statement p; the first step of a statement begins
\* with the assignment to rank that precedes it, the last one leaves the loop
LT_Step(p) ==
    LET items == LT_Steps(p)[idx]
        st0 == [flush |-> flush, unsuited |-> unsuited, i |-> 1,
                rank |-> IF idx = 1 THEN LT_StartRank(p) ELSE rank]
        st1 == LT_Run(p, st0, items, Len(items))
    IN  /\ flush' = st1.flush
        /\ unsuited' = st1.unsuited
        /\ rank' = st1.rank
        /\ idx' = IF idx = Len(LT_Steps(p)) THEN 1 ELSE idx + 1
        /\ pc' = IF idx = Len(LT_Steps(p)) THEN LT_NextLoop(p) ELSE pc
        /\ UNCHANGED <<table, co, genvars, evalvars>>

LT_StraightFlushes == pc = "straight_flushes" /\ LT_Step("straight_flushes")

LT_Flushes == pc = "flushes" /\ LT_Step("flushes")

LT_Straights == pc = "straights" /\ LT_Step("straights")

LT_HighCards == pc = "highcards" /\ LT_Step("highcards")

LT_FourOfAKind == pc = "quads" /\ LT_Step("quads")

LT_FullHouse == pc = "full_house" /\ LT_Step("full_house")

LT_ThreeOfAKind == pc = "trips" /\ LT_Step("trips")

LT_TwoPair == pc = "two_pair" /\ LT_Step("two_pair")

LT_Pair == pc = "pair" /\ LT_Step("pair")

LT_Build ==
    \/ LT_StraightFlushes
    \/ LT_Flushes
    \/ LT_Straights
    \/ LT_HighCards
    \/ LT_FourOfAKind
    \/ LT_FullHouse
    \/ LT_ThreeOfAKind
    \/ LT_TwoPair
    \/ LT_Pair

\* no generator is running
GenIdle == bits = 0 /\ w = 0 /\ pulled = 0

\* no evaluator call is running
EvalIdle ==
    /\ cards = <<>>
    /\ handler = "none"
    /\ epc = "idle"
    /\ minimum = 0
    /\ ci = 0
    /\ result = <<>>

Init == LT_Init /\ GenIdle /\ EvalIdle

Next == LT_Build

Spec == Init /\ [][Next]_vars

-----------------------------------------------------------------------------
(* The generator next_word driven by a consumer that calls next(gen).       *)

\* largest seed of the contiguous range of seeds tried
MaxSeed == 40

\* number of next(gen) calls the consumer makes
MaxPulls == 8

\* the seeds tried: every word up to MaxSeed and the wide seeds of the tables
SeedSet == (1..MaxSeed) \cup {4099, 4103}

\* no table is under construction
TableIdle ==
    /\ table = "none"
    /\ pc = "idle"
    /\ idx = 0
    /\ rank = 0
    /\ co = 0
    /\ flush = EmptyDict
    /\ unsuited = EmptyDict

\* gen = next_word(bits): nothing runs before the first next(gen)
NW_Init ==
    /\ bits \in SeedSet
    /\ w = 0
    /\ pulled = 0

\* the first next(gen): the code up to the first yield
NW_First ==
    /\ bits # 0
    /\ pulled = 0
    /\ w' = NextWordFirst(bits)
    /\ pulled' = 1
    /\ UNCHANGED <<bits, tblvars, evalvars>>

\* a later next(gen): one turn of "while True"
NW_Loop ==
    /\ pulled >= 1
    /\ pulled < MaxPulls
    /\ w' = NextWordLoop(w)
    /\ pulled' = pulled + 1
    /\ UNCHANGED <<bits, tblvars, evalvars>>

InitNextWord == TableIdle /\ NW_Init /\ EvalIdle

NextNextWord == NW_First \/ NW_Loop

SpecNextWord == InitNextWord /\ [][NextNextWord]_vars

-----------------------------------------------------------------------------
(* class OmahaEvaluator(Evaluator).  The constructor builds the five-card   *)
(* table (Evaluator.__init__) and installs hand_size_map; a call evaluates  *)
(* one list of cards.                                                       *)

\* a for statement of build() run from its rank assignment to its end
LT_WholeLoop(p, st) ==
    LT_Run(p, [st EXCEPT !.rank = LT_StartRank(p), !.i = 1],
           Flatten(LT_Steps(p)), Len(Flatten(LT_Steps(p))))

\* the table fields and rank after LookupTable.build()
LT_BuiltState ==
    LT_WholeLoop("pair",
    LT_WholeLoop("two_pair",
    LT_WholeLoop("trips",
    LT_WholeLoop("full_house",
    LT_WholeLoop("quads",
    LT_WholeLoop("highcards",
    LT_WholeLoop("straights",
    LT_WholeLoop("flushes",
    LT_WholeLoop("straight_flushes",
        [flush |-> EmptyDict, unsuited |-> EmptyDict, rank |-> 0, i |-> 1])))))))))

\* the state LookupTable() leaves behind
TableBuilt ==
    /\ table = "LookupTable"
    /\ pc = "done"
    /\ idx = 1
    /\ rank = LT_BuiltState.rank
    /\ co = 0
    /\ flush = LT_BuiltState.flush
    /\ unsuited = LT_BuiltState.unsuited

\* A card is one of 52 values: rank index 0..12 (deuce..ace) and suit 0..3.
CardRank(c) == c \div 4
CardSuit(c) == c % 4

\* largest first card, largest stride and largest length of the inputs tried
MaxStart == 3
MaxStride == 3
MaxCards == 11

\* the list of n distinct cards start, start + stride, ... (mod 52)
Hand(start, stride, n) == [i \in 1..n |-> (start + (i - 1) * stride) % 52]

\* the inputs tried: lists of 4 to MaxCards distinct cards
InputHands ==
    {Hand(s, d, n) : s \in 0..MaxStart, d \in 1..MaxStride, n \in 4..MaxCards}

hand_size_map_NoTen ==
    (5 :> "_five") @@ (6 :> "_six") @@ (7 :> "_seven")
       @@ (8 :> "_eightnineten") @@ (9 :> "_eightnineten")

\* OmahaEvaluator.__init__: self.hand_size_map
hand_size_map ==
    (5 :> "_five") @@ (6 :> "_six") @@ (7 :> "_seven")
       @@ (8 :> "_eightnineten") @@ (9 :> "_eightnineten")
       @@ (10 :> "_eightnineten")

RECURSIVE RankProduct(_)
RankProduct(h) ==
    IF h = <<>> THEN 1 ELSE Prime(CardRank(Head(h))) * RankProduct(Tail(h))

\* Evaluator._five on a five-card hand: the flush table when the five cards
\* share a suit, the unsuited table otherwise, keyed by the prime product
five(h) ==
    IF \A i \in 1..Len(h) : CardSuit(h[i]) = CardSuit(h[1])
    THEN flush[RankProduct(h)]
    ELSE unsuited[RankProduct(h)]

\* the least element of a non-empty set of ranks
MinOf(S) == CHOOSE x \in S : \A y \in S : x <= y

\* Evaluator._six / Evaluator._seven: the best of all five-card subsets
best_of_subsets(h) ==
    LET all5 == Combinations(h, 5)
    IN  MinOf({five(all5[i]) : i \in 1..Len(all5)})

\* What self._five(combo) can do: <<score>> when it returns a score, <<>>
\* when it raises.  On five cards it returns the table's rank.  On any other
\* number of cards its behaviour is not fixed by its contract: it may raise,
\* or return the rank of five of the cards it was given.
five_outcomes(combo) ==
    IF Len(combo) = 5 THEN {<<five(combo)>>}
    ELSE {<<>>} \cup
         {<<five(Combinations(combo, 5)[i])>> : i \in 1..Len(Combinations(combo, 5))}

\* cards[:n] and cards[n:]
Prefix(l, n) == SubSeq(l, 1, IF Len(l) < n THEN Len(l) ELSE n)
Suffix(l, n) == SubSeq(l, n + 1, Len(l))

\* itertools.permutations in place of itertools.combinations
all2cardscombos_Permutations(cs) ==
    Combinations(Prefix(cs, 5), 2) \o Combinations(Reverse(Prefix(cs, 5)), 2)

\* _eightnineten: all2cardscombos
all2cardscombos(cs) == Combinations(Prefix(cs, 5), 2)

\* _eightnineten: all5cardscombos
all5cardscombos(cs) ==
    [i \in 1..Len(all2cardscombos(cs)) |-> all2cardscombos(cs)[i] \o Suffix(cs, 5)]

\* a call on a list of cards whose length has no handler: the lookup
\* self.hand_size_map[len(cards)] raises, nothing is returned
OE_Unsupported ==
    /\ epc = "idle"
    /\ \E h \in InputHands :
          /\ Len(h) \notin DOMAIN hand_size_map
          /\ cards' = h
    /\ handler' = "none"
    /\ epc' = "raised"
    /\ UNCHANGED <<minimum, ci, result, tblvars, genvars>>

\* a call dispatched to Evaluator._five
OE_Five ==
    /\ epc = "idle"
    /\ \E h \in InputHands :
          /\ Len(h) \in DOMAIN hand_size_map
          /\ hand_size_map[Len(h)] = "_five"
          /\ cards' = h
          /\ result' = <<five(h)>>
    /\ handler' = "_five"
    /\ epc' = "returned"
    /\ UNCHANGED <<minimum, ci, tblvars, genvars>>

\* a call dispatched to Evaluator._six or Evaluator._seven
OE_SixSeven ==
    /\ epc = "idle"
    /\ \E h \in InputHands :
          /\ Len(h) \in DOMAIN hand_size_map
          /\ hand_size_map[Len(h)] \in {"_six", "_seven"}
          /\ cards' = h
          /\ handler' = hand_size_map[Len(h)]
          /\ result' = <<best_of_subsets(h)>>
    /\ epc' = "returned"
    /\ UNCHANGED <<minimum, ci, tblvars, genvars>>

\* a call dispatched to _eightnineten, up to the for statement
OE_EightNineTen ==
    /\ epc = "idle"
    /\ \E h \in InputHands :
          /\ Len(h) \in DOMAIN hand_size_map
          /\ hand_size_map[Len(h)] = "_eightnineten"
          /\ cards' = h
    /\ handler' = "_eightnineten"
    /\ minimum' = LT_MAX_HIGH_CARD
    /\ ci' = 1
    /\ epc' = "scoring"
    /\ UNCHANGED <<result, tblvars, genvars>>

\* _eightnineten: one iteration of "for combo in all5cardscombos"
OE_Score ==
    /\ epc = "scoring"
    /\ ci <= Len(all5cardscombos(cards))
    /\ \E out \in five_outcomes(all5cardscombos(cards)[ci]) :
          IF out = <<>>
          THEN /\ epc' = "raised"
               /\ UNCHANGED <<minimum, ci>>
          ELSE /\ minimum' = IF out[1] < minimum THEN out[1] ELSE minimum
               /\ ci' = ci + 1
               /\ UNCHANGED epc
    /\ UNCHANGED <<cards, handler, result, tblvars, genvars>>

\* _eightnineten: "return minimum" after the loop
OE_Return ==
    /\ epc = "scoring"
    /\ ci > Len(all5cardscombos(cards))
    /\ result' = <<minimum>>
    /\ epc' = "returned"
    /\ UNCHANGED <<cards, handler, minimum, ci, tblvars, genvars>>

InitOmaha == TableBuilt /\ GenIdle /\ EvalIdle

NextOmaha ==
    \/ OE_Unsupported
    \/ OE_Five
    \/ OE_SixSeven
    \/ OE_EightNineTen
    \/ OE_Score
    \/ OE_Return

SpecOmaha == InitOmaha /\ [][NextOmaha]_vars

-----------------------------------------------------------------------------
(* class LookupTableThreeCards and class LookupTableFourCards: the draw     *)
(* tables.  Their values are Python lists or Python ints; a value is kept   *)
(* with its type.                                                           *)

DrawTables == {"LookupTableThreeCards", "LookupTableFourCards"}

PyNone == [type |-> "None"]
PyInt(n) == [type |-> "int", v |-> n]
PyList(l) == [type |-> "list", v |-> l]

\* bool(x)
Truthy(x) ==
    CASE x.type = "None" -> FALSE
      [] x.type = "int"  -> x.v # 0
      [] x.type = "list" -> x.v # <<>>

\* d.get(k)
Get(d, k) == IF k \in DOMAIN d THEN d[k] ELSE PyNone

AppendTo_Overwrites(x, r) == PyList(<<r>>)

\* d[k].append(r), x being d[k]: only a list has append
AppendTo(x, r) ==
    IF x.type = "list" THEN PyList(Append(x.v, r))
    ELSE [type |-> "AttributeError"]

T3_MAX_STRAIGHT_FLUSH == 10
T3_MAX_FOUR_OF_A_KIND == 179
T3_MAX_FULL_HOUSE == 348
T3_MAX_FLUSH == 570
T3_MAX_STRAIGHT == 580
T3_MAX_THREE_OF_A_KIND == 1022
T3_MAX_TWO_PAIR == 1464
T3_MAX_PAIR == 1750

T4_MAX_STRAIGHT_FLUSH == 10
T4_MAX_FOUR_OF_A_KIND == 166
T4_MAX_FULL_HOUSE == 478
T4_MAX_FLUSH == 1152
T4_MAX_STRAIGHT == 1162
T4_MAX_THREE_OF_A_KIND == 2020
T4_MAX_TWO_PAIR == 2878
T4_MAX_PAIR == 3593

\* "for i in range(8, -1, -1): for a in sequence: append(a << i)"
ShiftedWindows(sequence) ==
    Flatten([n \in 1..9 |->
                [j \in 1..Len(sequence) |-> ShiftLeft(sequence[j], 9 - n)]])

\* the elements of S in ascending order, S a set of integers in lo..hi
\* (T names the value of S, so that S is evaluated once)
RECURSIVE SortedRange(_, _, _)
SortedRange(S, lo, hi) ==
    CHOOSE sorted \in
        {IF T = {} THEN <<>>
         ELSE IF lo = hi THEN <<lo>>
         ELSE SortedRange({x \in T : x <= (lo + hi) \div 2}, lo, (lo + hi) \div 2)
                 \o SortedRange({x \in T : x > (lo + hi) \div 2},
                                (lo + hi) \div 2 + 1, hi) : T \in {S}} : TRUE

\* "set_dif = set(flushes) - set(straight_flushes); flushes = list(set_dif);
\*  flushes.sort(); flushes.reverse()"  (the words have 13 bits)
FlushesLeft(generated, sfs) ==
    Reverse(SortedRange(Range(generated) \ Range(sfs), 0, 8191))

\* LookupTableThreeCards.build_flushes: sequence, after sequence.reverse()
T3_sequence == Reverse(<<7>> \o TakeWords(7, 9))

\* LookupTableThreeCards.build_flushes: straight_flushes
T3_straight_flushes ==
    ShiftedWindows(T3_sequence)
       \o <<4099>> \o TakeWords(4099, 5)
       \o <<7>> \o TakeWords(7, 3)

\* LookupTableThreeCards.build_flushes: flushes, before and after the
\* straight-flush draws are removed
T3_generated == TakeWords(7, 285)
T3_flushes_KeepsDraws == Reverse(SortedRange(Range(T3_generated), 0, 8191))
T3_flushes == FlushesLeft(T3_generated, T3_straight_flushes)

\* LookupTableFourCards.build_flushes: sequence, after sequence.reverse()
T4_sequence == Reverse(<<7>> \o TakeWords(7, 4))

\* LookupTableFourCards.build_flushes: straight_flushes
T4_straight_flushes ==
    ShiftedWindows(T4_sequence)
       \o <<4103>> \o TakeWords(4103, 3)
       \o <<15>>

\* LookupTableFourCards.build_flushes: flushes, before and after the
\* straight-flush draws are removed
T4_generated == TakeWords(15, 714)
T4_flushes == FlushesLeft(T4_generated, T4_straight_flushes)

\* the products of a list of rank words
RankbitKeys(words) == [j \in 1..Len(words) |-> product_from_rankbits(words[j])]

\* "for i in backwards_ranks: product = card.PRIMES[i] ** 3"
TripsKeys == [a \in 1..Len(backwards_ranks) |-> Pow(Prime(backwards_ranks[a]), 3)]

\* the value the loop variable i of build_multiples holds once a loop
\* "for i in backwards_ranks" has ended
T3_i_after_loops == backwards_ranks[Len(backwards_ranks)]

\* the products formed in the draw tables' build_multiples, for the (i, k)
\* of the loop and its inner loop over kickers
T3_PairKickerProduct(i, k) == Pow(Prime(i), 2) * Prime(k)
\* line 501: the loop variable is r, the product reads i
T3_TwoPairProduct(r, k) == Pow(Prime(T3_i_after_loops), 2) * Prime(k)
T4_TripsKickerProduct(i, k) == Pow(Prime(i), 3) * Prime(k)
T4_TwoPairProduct(i, k) == Pow(Prime(i), 2) * Pow(Prime(k), 2)
T4_PairKickersProduct(pairrank, k1, k2) ==
    Pow(Prime(pairrank), 2) * Prime(k1) * Prime(k2)

\* "for r in gen": the product of the primes of r
RECURSIVE PrimesProduct(_)
PrimesProduct(r) ==
    IF r = <<>> THEN 1 ELSE Prime(Head(r)) * PrimesProduct(Tail(r))

HighCardKeys(gen) == [j \in 1..Len(gen) |-> PrimesProduct(gen[j])]

\* gen = itertools.combinations(backwards_ranks, 3), and of 4
T3_gen == Combinations(backwards_ranks, 3)
T4_gen == Combinations(backwards_ranks, 4)

\* the keys of the flat loops of each class
T3_StraightFlushKeys == RankbitKeys(T3_straight_flushes)
T3_FlushKeys == RankbitKeys(T3_flushes)
T3_HighCardKeys == HighCardKeys(T3_gen)
T4_StraightFlushKeys == RankbitKeys(T4_straight_flushes)
T4_FlushKeys == RankbitKeys(T4_flushes)
T4_HighCardKeys == HighCardKeys(T4_gen)

\* the keys of the nested loops over (i, k) with k in kickers, one list per i
T3_PairKickerKeys ==
    [a \in 1..Len(RankKickerPairs) |->
        [b \in 1..Len(RankKickerPairs[a]) |->
            T3_PairKickerProduct(RankKickerPairs[a][b][1], RankKickerPairs[a][b][2])]]
T3_TwoPairKeys ==
    [a \in 1..Len(RankKickerPairs) |->
        [b \in 1..Len(RankKickerPairs[a]) |->
            T3_TwoPairProduct(RankKickerPairs[a][b][1], RankKickerPairs[a][b][2])]]
T4_TripsKickerKeys ==
    [a \in 1..Len(RankKickerPairs) |->
        [b \in 1..Len(RankKickerPairs[a]) |->
            T4_TripsKickerProduct(RankKickerPairs[a][b][1], RankKickerPairs[a][b][2])]]
T4_TwoPairKeys ==
    [a \in 1..Len(RankKickerPairs) |->
        [b \in 1..Len(RankKickerPairs[a]) |->
            T4_TwoPairProduct(RankKickerPairs[a][b][1], RankKickerPairs[a][b][2])]]

\* the keys of the nested loops over pairrank and
\* itertools.combinations(kickers, 2), one list per pairrank
T4_PairKickersKeys ==
    [a \in 1..Len(backwards_ranks) |->
        LET pairrank == backwards_ranks[a]
            kgen == Combinations(RemoveFirst(backwards_ranks, pairrank), 2)
        IN  [b \in 1..Len(kgen) |->
                T4_PairKickersProduct(pairrank, kgen[b][1], kgen[b][2])]]

(* A pass is one top-level for statement of build_flushes, build_straights  *)
(* or build_multiples, in program order:                                    *)
(*   dict   the mapping its body writes                                     *)
(*   mode   "counted": append or [rank], rank += 1 every tenth element (co) *)
(*          "assign" : self.flush[product] = rank, rank += 1                *)
(*          "each"   : append or [rank], rank += 1                          *)
(*   start  <<n>> if "rank = n" precedes the loop, <<>> if rank runs on     *)
(*   steps  the keys it writes: one list for a loop whose body is a single  *)
(*          write, one list per outer iteration for a nested loop           *)
(*   next   the pass that follows                                           *)
Pass(d, m, st, ks, nx) ==
    [dict |-> d, mode |-> m, start |-> st, steps |-> ks, next |-> nx]

\* LookupTableThreeCards: build_flushes (two loops), build_straights, then
\* the nine loops of build_multiples
T3_StraightFlushesPass ==
    Pass("flush", "counted", <<1>>,
         <<T3_StraightFlushKeys>>, "flushes")

T3_FlushesPass ==
    Pass("flush", "assign", <<T3_MAX_FULL_HOUSE + 1>>,
         <<T3_FlushKeys>>, "straights")

T3_StraightsPass ==
    Pass("unsuited", "counted", <<T3_MAX_FLUSH + 1>>,
         <<T3_StraightFlushKeys>>, "quads_trips")

T3_QuadsFromTripsPass ==
    Pass("unsuited", "each", <<T3_MAX_STRAIGHT_FLUSH + 1>>,
         <<TripsKeys>>, "quads_pair")

T3_QuadsFromPairPass ==
    Pass("unsuited", "each", <<>>,
         T3_PairKickerKeys, "full_house_trips")

T3_FullHouseFromTripsPass ==
    Pass("unsuited", "each", <<T3_MAX_FOUR_OF_A_KIND + 1>>,
         <<TripsKeys>>, "full_house_pair")

T3_FullHouseFromPairPass ==
    Pass("unsuited", "each", <<>>,
         T3_PairKickerKeys, "trips_pair")

T3_TripsFromPairPass ==
    Pass("unsuited", "each", <<T3_MAX_STRAIGHT + 1>>,
         T3_PairKickerKeys, "trips_highcard")

T3_TripsFromHighCardPass ==
    Pass("unsuited", "each", <<>>,
         <<T3_HighCardKeys>>, "two_pair_pair")

T3_TwoPairFromPairPass ==
    Pass("unsuited", "each", <<T3_MAX_THREE_OF_A_KIND + 1>>,
         T3_TwoPairKeys, "two_pair_highcard")

T3_TwoPairFromHighCardPass ==
    Pass("unsuited", "each", <<>>,
         <<T3_HighCardKeys>>, "pair_highcard")

T3_PairFromHighCardPass ==
    Pass("unsuited", "each", <<T3_MAX_TWO_PAIR + 1>>,
         <<T3_HighCardKeys>>, "done")

\* LookupTableFourCards: build_flushes (two loops), build_straights, then
\* the six loops of build_multiples
T4_StraightFlushesPass ==
    Pass("flush", "counted", <<1>>,
         <<T4_StraightFlushKeys>>, "flushes")

T4_FlushesPass ==
    Pass("flush", "assign", <<T4_MAX_FULL_HOUSE + 1>>,
         <<T4_FlushKeys>>, "straights")

T4_StraightsPass ==
    Pass("unsuited", "counted", <<T4_MAX_FLUSH + 1>>,
         <<T4_StraightFlushKeys>>, "quads_trips")

T4_QuadsFromTripsPass ==
    Pass("unsuited", "each", <<T4_MAX_STRAIGHT_FLUSH + 1>>,
         T4_TripsKickerKeys, "full_house_trips")

T4_FullHouseFromTripsPass ==
    Pass("unsuited", "each", <<T4_MAX_FOUR_OF_A_KIND + 1>>,
         T4_TripsKickerKeys, "full_house_two_pair")

T4_FullHouseFromTwoPairPass ==
    Pass("unsuited", "each", <<>>,
         T4_TwoPairKeys, "trips_pair")

T4_TripsFromPairPass ==
    Pass("unsuited", "each", <<T4_MAX_STRAIGHT + 1>>,
         T4_PairKickersKeys, "two_pair_pair")

T4_TwoPairFromPairPass ==
    Pass("unsuited", "each", <<T4_MAX_THREE_OF_A_KIND + 1>>,
         T4_PairKickersKeys, "pair_highcard")

T4_PairFromHighCardPass ==
    Pass("unsuited", "each", <<T4_MAX_TWO_PAIR + 1>>,
         <<T4_HighCardKeys>>, "done")

\* the pass of each class that pc = p names
T3_Pass(p) ==
    CASE p = "straight_flushes" -> T3_StraightFlushesPass
      [] p = "flushes" -> T3_FlushesPass
      [] p = "straights" -> T3_StraightsPass
      [] p = "quads_trips" -> T3_QuadsFromTripsPass
      [] p = "quads_pair" -> T3_QuadsFromPairPass
      [] p = "full_house_trips" -> T3_FullHouseFromTripsPass
      [] p = "full_house_pair" -> T3_FullHouseFromPairPass
      [] p = "trips_pair" -> T3_TripsFromPairPass
      [] p = "trips_highcard" -> T3_TripsFromHighCardPass
      [] p = "two_pair_pair" -> T3_TwoPairFromPairPass
      [] p = "two_pair_highcard" -> T3_TwoPairFromHighCardPass
      [] p = "pair_highcard" -> T3_PairFromHighCardPass

T4_Pass(p) ==
    CASE p = "straight_flushes" -> T4_StraightFlushesPass
      [] p = "flushes" -> T4_FlushesPass
      [] p = "straights" -> T4_StraightsPass
      [] p = "quads_trips" -> T4_QuadsFromTripsPass
      [] p = "full_house_trips" -> T4_FullHouseFromTripsPass
      [] p = "full_house_two_pair" -> T4_FullHouseFromTwoPairPass
      [] p = "trips_pair" -> T4_TripsFromPairPass
      [] p = "two_pair_pair" -> T4_TwoPairFromPairPass
      [] p = "pair_highcard" -> T4_PairFromHighCardPass

\* the pass of class t that pc = p names
DT_Pass(t, p) == IF t = "LookupTableThreeCards" THEN T3_Pass(p) ELSE T4_Pass(p)

\* one execution of a loop body: st holds self.flush, self.unsuited, the
\* locals rank and co, and the position i in the list of keys
DT_Body(ps, st, keys) ==
    LET product == keys[st.i]
        d == IF ps.dict = "flush" THEN st.flush ELSE st.unsuited
        exist_key == Truthy(Get(d, product))
        value == IF ps.mode = "assign" THEN PyInt(st.rank)
                 ELSE IF exist_key THEN AppendTo(d[product], st.rank)
                 ELSE PyList(<<st.rank>>)
    IN  [flush    |-> IF ps.dict = "flush"
                      THEN Store(st.flush, product, value) ELSE st.flush,
         unsuited |-> IF ps.dict = "unsuited"
                      THEN Store(st.unsuited, product, value) ELSE st.unsuited,
         rank     |-> IF ps.mode = "counted" /\ st.co # 9
                      THEN st.rank ELSE st.rank + 1,
         co       |-> IF ps.mode = "counted"
                      THEN (IF st.co = 9 THEN 0 ELSE st.co + 1) ELSE st.co,
         i        |-> st.i + 1]

\* the loop body run on keys[st.i .. hi], in order (s names the value of
\* st, so that st is evaluated once)
RECURSIVE DT_Run(_, _, _, _)
DT_Run(ps, st, keys, hi) ==
    CHOOSE after \in
        {IF s.i > hi THEN s
         ELSE IF s.i = hi THEN DT_Body(ps, s, keys)
         ELSE DT_Run(ps, DT_Run(ps, s, keys, (s.i + hi) \div 2), keys, hi)
            : s \in {st}} : TRUE

\* one step of the running pass ps
DT_Step(ps) ==
    LET keys == ps.steps[idx]
        st0 == [flush |-> flush, unsuited |-> unsuited, i |-> 1,
                rank |-> IF idx = 1 /\ ps.start # <<>> THEN ps.start[1] ELSE rank,
                co |-> IF idx = 1 /\ ps.mode = "counted" THEN 0 ELSE co]
    IN  /\ \E st1 \in {DT_Run(ps, st0, keys, Len(keys))} :
              /\ flush' = st1.flush
              /\ unsuited' = st1.unsuited
              /\ rank' = st1.rank
              /\ co' = st1.co
        /\ idx' = IF idx = Len(ps.steps) THEN 1 ELSE idx + 1
        /\ pc' = IF idx = Len(ps.steps) THEN ps.next ELSE pc
        /\ UNCHANGED <<table, genvars, evalvars>>

\* build() after "self.flush = OrderedDict(); self.unsuited = OrderedDict()"
\* of either class; rank and co are not assigned yet (0)
DT_Init ==
    /\ table \in DrawTables
    /\ pc = "straight_flushes"
    /\ idx = 1
    /\ rank = 0
    /\ co = 0
    /\ flush = EmptyDict
    /\ unsuited = EmptyDict

\* the passes of build_multiples of each class
T3_MultiplesPasses ==
    {"quads_trips", "quads_pair", "full_house_trips", "full_house_pair",
     "trips_pair", "trips_highcard", "two_pair_pair", "two_pair_highcard",
     "pair_highcard"}
T4_MultiplesPasses ==
    {"quads_trips", "full_house_trips", "full_house_two_pair", "trips_pair",
     "two_pair_pair", "pair_highcard"}

\* LookupTableThreeCards: a step of build_flushes up to the call of
\* build_straights, of build_straights, of build_multiples
T3_build_flushes ==
    /\ table = "LookupTableThreeCards"
    /\ pc \in {"straight_flushes", "flushes"}
    /\ DT_Step(T3_Pass(pc))
T3_build_straights ==
    /\ table = "LookupTableThreeCards"
    /\ pc = "straights"
    /\ DT_Step(T3_Pass(pc))
T3_build_multiples ==
    /\ table = "LookupTableThreeCards"
    /\ pc \in T3_MultiplesPasses
    /\ DT_Step(T3_Pass(pc))

\* LookupTableFourCards: likewise
T4_build_flushes ==
    /\ table = "LookupTableFourCards"
    /\ pc \in {"straight_flushes", "flushes"}
    /\ DT_Step(T4_Pass(pc))
T4_build_straights ==
    /\ table = "LookupTableFourCards"
    /\ pc = "straights"
    /\ DT_Step(T4_Pass(pc))
T4_build_multiples ==
    /\ table = "LookupTableFourCards"
    /\ pc \in T4_MultiplesPasses
    /\ DT_Step(T4_Pass(pc))

InitDraw == DT_Init /\ GenIdle /\ EvalIdle

NextDraw ==
    \/ T3_build_flushes
    \/ T3_build_straights
    \/ T3_build_multiples
    \/ T4_build_flushes
    \/ T4_build_straights
    \/ T4_build_multiples

SpecDraw == InitDraw /\ [][NextDraw]_vars

\* a draw table's constructor has returned
DT_Built == table \in DrawTables /\ pc = "done"




-----------------------------------------------------------------------------
(* Hands read back from a prime product, independently of the construction. *)

RankIndices == 0..12

RECURSIVE Exponent(_, _)
Exponent(n, q) == IF n % q = 0 THEN 1 + Exponent(n \div q, q) ELSE 0

\* the ranks that occur exactly e times in the hand with prime product key
RanksWith(key, e) == {i \in RankIndices : Exponent(key, Prime(i)) = e}

\* five ranks in sequence, the ace also counting below the deuce
IsStraightRanks(S) ==
    /\ Cardinality(S) = 5
    /\ \/ \E top \in 4..12 : S = (top - 4)..top
       \/ S = {12, 0, 1, 2, 3}

\* the poker category of a five-card hand given by its prime product and by
\* whether its cards share one suit
Category(key, suited) ==
    LET n4 == Cardinality(RanksWith(key, 4))
        n3 == Cardinality(RanksWith(key, 3))
        n2 == Cardinality(RanksWith(key, 2))
        n1 == Cardinality(RanksWith(key, 1))
    IN  CASE n4 = 1 /\ n1 = 1 -> "four_of_a_kind"
          [] n3 = 1 /\ n2 = 1 -> "full_house"
          [] n3 = 1 /\ n1 = 2 /\ n2 = 0 -> "three_of_a_kind"
          [] n2 = 2 /\ n1 = 1 -> "two_pair"
          [] n2 = 1 /\ n1 = 3 -> "pair"
          [] n1 = 5 /\ IsStraightRanks(RanksWith(key, 1)) ->
                 IF suited THEN "straight_flush" ELSE "straight"
          [] n1 = 5 /\ ~IsStraightRanks(RanksWith(key, 1)) ->
                 IF suited THEN "flush" ELSE "high_card"
          [] OTHER -> "none"

\* the documented rank window of each category
Window(c) ==
    CASE c = "straight_flush"  -> 1..10
      [] c = "four_of_a_kind"  -> 11..166
      [] c = "full_house"      -> 167..322
      [] c = "flush"           -> 323..1599
      [] c = "straight"        -> 1600..1609
      [] c = "three_of_a_kind" -> 1610..2467
      [] c = "two_pair"        -> 2468..3325
      [] c = "pair"            -> 3326..6185
      [] c = "high_card"       -> 6186..7462
      [] OTHER                 -> {}

SuitedCategories == {"straight_flush", "flush"}

UnsuitedCategories ==
    {"four_of_a_kind", "full_house", "straight", "three_of_a_kind", "two_pair",
     "pair", "high_card"}

\* the dict written by loop p of LookupTable.build()
LT_Table(p) == IF LT_WritesFlush(p) THEN flush ELSE unsuited

LT_Built == pc = "done"

-----------------------------------------------------------------------------
(* C1: after LookupTable.build() the values of flush and unsuited together  *)
(* are exactly 1..7462, each rank held by exactly one key (1287 keys in     *)
(* flush, 6175 in unsuited), and during construction no iteration writes a  *)
(* key that its dict already holds.                                         *)
C1_RanksPartition ==
    /\ (pc # "done") =>
          LET items == LT_Steps(pc)[idx]
              keys == {LT_Key(pc, items[i]) : i \in 1..Len(items)}
          IN  /\ Cardinality(keys) = Len(items)
              /\ keys \cap DOMAIN LT_Table(pc) = {}
    /\ LT_Built =>
          /\ Cardinality(DOMAIN flush) = 1287
          /\ Cardinality(DOMAIN unsuited) = 6175
          /\ {flush[k] : k \in DOMAIN flush} \cup {unsuited[k] : k \in DOMAIN unsuited}
                = 1..7462

C1_Witness ==
    /\ LT_Built
    /\ Cardinality(DOMAIN flush) + Cardinality(DOMAIN unsuited) = 7462

(* C2: in the built five-card table every entry's rank lies in the window   *)
(* of the entry's own category, every window is filled exactly, and each    *)
(* loop leaves its rank counter one past the top of its window.             *)
C2_LoopEnd(p, last) == (pc = LT_NextLoop(p) /\ idx = 1) => rank = last + 1

C2_Windows ==
    /\ C2_LoopEnd("straight_flushes", 10)
    /\ C2_LoopEnd("flushes", 1599)
    /\ C2_LoopEnd("straights", 1609)
    /\ C2_LoopEnd("highcards", 7462)
    /\ C2_LoopEnd("quads", 166)
    /\ C2_LoopEnd("full_house", 322)
    /\ C2_LoopEnd("trips", 2467)
    /\ C2_LoopEnd("two_pair", 3325)
    /\ C2_LoopEnd("pair", 6185)
    /\ LT_Built =>
          /\ \A k \in DOMAIN flush : flush[k] \in Window(Category(k, TRUE))
          /\ \A k \in DOMAIN unsuited : unsuited[k] \in Window(Category(k, FALSE))
          /\ \A c \in SuitedCategories :
                {flush[k] : k \in {x \in DOMAIN flush : Category(x, TRUE) = c}}
                   = Window(c)
          /\ \A c \in UnsuitedCategories :
                {unsuited[k] : k \in {x \in DOMAIN unsuited : Category(x, FALSE) = c}}
                   = Window(c)

C2_Witness ==
    /\ LT_Built
    /\ \E k \in DOMAIN unsuited : unsuited[k] = 6185 /\ Category(k, FALSE) = "pair"
    /\ \E k \in DOMAIN flush : flush[k] = 1599 /\ Category(k, TRUE) = "flush"

(* C3: within each multiples category of the built five-card table, of two  *)
(* distinct entries the one whose tuple (multiples from most to least       *)
(* significant, then kickers descending) is lexicographically greater has   *)
(* the smaller rank, and only that one; so AAAA+K < AAAA+Q < KKKK+A.        *)

\* the elements of a set of ranks in descending order
RECURSIVE Descending(_)
Descending(S) ==
    IF S = {} THEN <<>>
    ELSE LET m == CHOOSE x \in S : \A y \in S : y <= x
         IN  <<m>> \o Descending(S \ {m})

\* the tie-break tuple of the hand with prime product key
TieBreakTuple(key) ==
    Descending(RanksWith(key, 4)) \o Descending(RanksWith(key, 3))
       \o Descending(RanksWith(key, 2)) \o Descending(RanksWith(key, 1))

\* a tuple of ranks read as a base-13 numeral: for tuples of one length the
\* numeral order is the lexicographic order
RECURSIVE Numeral(_)
Numeral(t) ==
    IF t = <<>> THEN 0 ELSE 13 * Numeral(SubSeq(t, 1, Len(t) - 1)) + t[Len(t)]

MultiplesCategories ==
    {"four_of_a_kind", "full_house", "three_of_a_kind", "two_pair", "pair"}

\* <<tuple numeral, rank>> of every entry of category c
C3_Entries(c) ==
    {<<Numeral(TieBreakTuple(k)), unsuited[k]>> :
        k \in {x \in DOMAIN unsuited : Category(x, FALSE) = c}}

C3_TieBreakOrder ==
    LT_Built =>
       \A c \in MultiplesCategories :
          LET E == C3_Entries(c)
          IN  /\ Cardinality(E) = Cardinality(Window(c))
              /\ \A a \in E : \A b \in E :
                    (a # b) => ((a[2] < b[2]) <=> (a[1] > b[1]))

C3_Witness ==
    /\ LT_Built
    /\ unsuited[41 * 41 * 41 * 41 * 37] < unsuited[41 * 41 * 41 * 41 * 31]
    /\ unsuited[41 * 41 * 41 * 41 * 31] < unsuited[37 * 37 * 37 * 37 * 41]

(* C4: rank 1 is A-K-Q-J-T suited and rank 7462 is 7-5-4-3-2 unsuited; the  *)
(* ten straights are ranked from ace-high down to the wheel in the          *)
(* straight-flush window (wheel 10) and in the straight window (wheel       *)
(* 1609); among the other patterns of five distinct ranks a numerically     *)
(* larger 13-bit pattern has a strictly smaller rank in both tables.        *)

RECURSIVE PrimeProductOf(_)
PrimeProductOf(S) ==
    IF S = {} THEN 1
    ELSE LET i == CHOOSE x \in S : TRUE
         IN  Prime(i) * PrimeProductOf(S \ {i})

RECURSIVE PatternOf(_)
PatternOf(S) ==
    IF S = {} THEN 0
    ELSE LET i == CHOOSE x \in S : TRUE
         IN  ShiftLeft(1, i) + PatternOf(S \ {i})

FiveRankSets == {S \in SUBSET RankIndices : Cardinality(S) = 5}

\* <<13-bit pattern, flush rank, unsuited rank>> of every non-straight set
C4_Unpaired ==
    {<<PatternOf(S), flush[PrimeProductOf(S)], unsuited[PrimeProductOf(S)]>> :
        S \in {T \in FiveRankSets : ~IsStraightRanks(T)}}

C4_PatternOrder ==
    LT_Built =>
       /\ flush[PrimeProductOf({12, 11, 10, 9, 8})] = 1
       /\ unsuited[PrimeProductOf({5, 3, 2, 1, 0})] = 7462
       /\ \A top \in 4..12 :
             /\ flush[PrimeProductOf((top - 4)..top)] = 13 - top
             /\ unsuited[PrimeProductOf((top - 4)..top)] = 1599 + 13 - top
       /\ flush[PrimeProductOf({12, 0, 1, 2, 3})] = 10
       /\ unsuited[PrimeProductOf({12, 0, 1, 2, 3})] = 1609
       /\ LET U == C4_Unpaired
          IN  /\ Cardinality(U) = 1277
              /\ \A a \in U : \A b \in U :
                    (a[1] > b[1]) => (a[2] < b[2] /\ a[3] < b[3])

C4_Witness ==
    /\ LT_Built
    /\ flush[41 * 37 * 31 * 29 * 23] = 1
    /\ flush[41 * 7 * 5 * 3 * 2] = 10
    /\ unsuited[13 * 7 * 5 * 3 * 2] = 7462

(* C5: for a seed with k >= 1 bits set, every word next_word yields is the  *)
(* smallest integer above the word yielded before it (above the seed, for   *)
(* the first) that has exactly k bits set.                                  *)

RECURSIVE PopCount(_)
PopCount(n) == IF n = 0 THEN 0 ELSE (n % 2) + PopCount(n \div 2)

\* x is the least integer above prev with exactly k bits set
IsNextWithBits(prev, x, k) ==
    /\ x > prev
    /\ PopCount(x) = k
    /\ \A y \in (prev + 1)..(x - 1) : PopCount(y) # k

C5_NextBitPermutation ==
    [][(pulled' = pulled + 1) =>
          IsNextWithBits(IF pulled = 0 THEN bits ELSE w, w', PopCount(bits))]_vars

C5_Witness == bits = 4099 /\ pulled = 5 /\ w = 4108

\* the completed build is the state the evaluator starts from
LT_BuiltStateIsFinal ==
    LT_Built =>
       /\ flush = LT_BuiltState.flush
       /\ unsuited = LT_BuiltState.unsuited
       /\ rank = LT_BuiltState.rank

(* C6: on 8, 9 or 10 cards (hole cards first) every candidate the Omaha     *)
(* path scores is a five-card hand, and the call returns one rank in        *)
(* 1..7462, the least five-card rank over the hands made of two hole cards  *)
(* and all the board cards.                                                 *)

\* the least rank over two cards of the hole pool joined with the board
C6_BestRank(cs) ==
    MinOf({five(<<cs[a], cs[b]>> \o Suffix(cs, 5)) :
              <<a, b>> \in {x \in (1..5) \X (1..5) : x[1] < x[2]}})

C6_BestOfHolePairs ==
    /\ (epc = "scoring") =>
          \A i \in 1..Len(all5cardscombos(cards)) :
             Len(all5cardscombos(cards)[i]) = 5
    /\ (handler = "_eightnineten" /\ epc \in {"returned", "raised"}) =>
          /\ epc = "returned"
          /\ Len(result) = 1
          /\ result[1] \in 1..7462
          /\ result[1] = C6_BestRank(cards)

C8_SupportedSizes ==
    /\ DOMAIN hand_size_map = 5..10
    /\ (epc # "idle") =>
          /\ (Len(cards) \in 5..10) <=> (handler # "none")
          /\ (Len(cards) = 5) => handler = "_five"
          /\ (Len(cards) = 6) => handler = "_six"
          /\ (Len(cards) = 7) => handler = "_seven"
          /\ (Len(cards) \in 8..10) => handler = "_eightnineten"
          /\ (handler = "none") => (epc = "raised" /\ result = <<>>)

C8_Witness ==
    /\ epc = "raised"
    /\ handler = "none"
    /\ Len(cards) = 11
    /\ result = <<>>

(* C9: after construction of a draw table every value of flush and of       *)
(* unsuited is a non-empty list of ranks, never a bare integer.             *)
C9_IsRankList(x) == x.type = "list" /\ Len(x.v) >= 1

C9_ValuesAreLists ==
    DT_Built =>
       /\ \A k \in DOMAIN flush : C9_IsRankList(flush[k])
       /\ \A k \in DOMAIN unsuited : C9_IsRankList(unsuited[k])

(* C10: during construction of a draw table the ranks recorded for a key    *)
(* stay recorded.  In every step each mapping keeps its keys, the ranks a   *)
(* key held before the step are the first ranks it holds after it, in the   *)
(* same order, and a key gains exactly one rank per write the step makes to *)
(* it: no write replaces what an earlier write recorded.                    *)

\* the ranks recorded by a value, in order
C10_Ranks(x) == IF x.type = "list" THEN x.v ELSE <<x.v>>

C10_RanksAt(d, k) == IF k \in DOMAIN d THEN C10_Ranks(d[k]) ELSE <<>>

C10_Keeps(old, new, written) ==
    /\ \A k \in DOMAIN old :
          /\ k \in DOMAIN new
          /\ Len(C10_Ranks(new[k])) >= Len(C10_Ranks(old[k]))
          /\ SubSeq(C10_Ranks(new[k]), 1, Len(C10_Ranks(old[k]))) = C10_Ranks(old[k])
    /\ \A k \in DOMAIN new :
          Len(C10_Ranks(new[k])) =
             Len(C10_RanksAt(old, k))
                + Cardinality({j \in 1..Len(written) : written[j] = k})

C10_AppendsNeverReplaces ==
    [][LET ps == DT_Pass(table, pc)
           none == <<>>
       IN  /\ C10_Keeps(flush, flush',
                        IF ps.dict = "flush" THEN ps.steps[idx] ELSE none)
           /\ C10_Keeps(unsuited, unsuited',
                        IF ps.dict = "unsuited" THEN ps.steps[idx] ELSE none)]_vars

C10_Witness ==
    /\ DT_Built
    /\ \E k \in DOMAIN flush : Len(C10_Ranks(flush[k])) >= 2
    /\ \E k \in DOMAIN unsuited : Len(C10_Ranks(unsuited[k])) >= 2

(* C11: in the three-card table the two-pair pass over pair rank r and      *)
(* kicker k # r gives the signature prime(r)^2 * prime(k) exactly one rank, *)
(* a rank in 1023..1178, and gives no other signature a rank: after         *)
(* construction a signature holds one rank of 1023..1178 if it is a pair    *)
(* with a kicker, none otherwise.                                           *)
C11_PassRanks ==
    (T3_MAX_THREE_OF_A_KIND + 1)
       .. (T3_MAX_THREE_OF_A_KIND + Len(backwards_ranks) * (Len(backwards_ranks) - 1))

C11_PairWithKicker ==
    {Pow(Prime(r), 2) * Prime(k) : <<r, k>> \in {x \in (0..12) \X (0..12) : x[1] # x[2]}}

C11_Received(k) ==
    Cardinality({j \in 1..Len(C10_RanksAt(unsuited, k)) :
                    C10_RanksAt(unsuited, k)[j] \in C11_PassRanks})

C11_TwoPairUsesIteratedRanks ==
    (DT_Built /\ table = "LookupTableThreeCards") =>
       /\ \A k \in C11_PairWithKicker : C11_Received(k) = 1
       /\ \A k \in DOMAIN unsuited \ C11_PairWithKicker : C11_Received(k) = 0

(* C12: in LookupTableThreeCards every category's passes end with rank one  *)
(* past the category's boundary, and the ranks they assign are exactly the  *)
(* category's window: every rank a step records lies in the window of the  *)
(* running pass, the last pass of a category leaves rank at the boundary    *)
(* plus one, and the finished table holds every rank of 1..1750.            *)
C12_Window(p) ==
    CASE p = "straight_flushes" -> 1..T3_MAX_STRAIGHT_FLUSH
      [] p \in {"quads_trips", "quads_pair"} ->
            (T3_MAX_STRAIGHT_FLUSH + 1)..T3_MAX_FOUR_OF_A_KIND
      [] p \in {"full_house_trips", "full_house_pair"} ->
            (T3_MAX_FOUR_OF_A_KIND + 1)..T3_MAX_FULL_HOUSE
      [] p = "flushes" -> (T3_MAX_FULL_HOUSE + 1)..T3_MAX_FLUSH
      [] p = "straights" -> (T3_MAX_FLUSH + 1)..T3_MAX_STRAIGHT
      [] p \in {"trips_pair", "trips_highcard"} ->
            (T3_MAX_STRAIGHT + 1)..T3_MAX_THREE_OF_A_KIND
      [] p \in {"two_pair_pair", "two_pair_highcard"} ->
            (T3_MAX_THREE_OF_A_KIND + 1)..T3_MAX_TWO_PAIR
      [] p = "pair_highcard" -> (T3_MAX_TWO_PAIR + 1)..T3_MAX_PAIR

\* the last pass of each category
C12_LastPasses ==
    {"straight_flushes", "quads_pair", "full_house_pair", "flushes",
     "straights", "trips_highcard", "two_pair_highcard", "pair_highcard"}

\* the ranks a step has added to a mapping
RanksGained(old, new) ==
    UNION {{C10_Ranks(new[k])[j] :
               j \in (Len(C10_RanksAt(old, k)) + 1)..Len(C10_Ranks(new[k]))}
             : k \in DOMAIN new}

\* the ranks a mapping holds
RanksHeld(d) == UNION {Range(C10_Ranks(d[k])) : k \in DOMAIN d}

C12_ThreeCardWindows ==
    [][(table = "LookupTableThreeCards") =>
          /\ RanksGained(flush, flush') \cup RanksGained(unsuited, unsuited')
                \subseteq C12_Window(pc)
          /\ (pc' # pc /\ pc \in C12_LastPasses) =>
                (rank' - 1 \in C12_Window(pc) /\ rank' \notin C12_Window(pc))
          /\ (pc' = "done") =>
                RanksHeld(flush') \cup RanksHeld(unsuited') = 1..T3_MAX_PAIR]_vars

C12_Witness ==
    /\ table = "LookupTableThreeCards"
    /\ pc = "done"
    /\ rank = T3_MAX_PAIR + 1
    /\ RanksHeld(flush) \cup RanksHeld(unsuited) = 1..T3_MAX_PAIR

(* C13: in LookupTableFourCards every category's passes end with rank one   *)
(* past the category's boundary, and the ranks they assign are exactly the  *)
(* category's window (straight flush 1..10, four of a kind 11..166, full    *)
(* house 167..478, flush 479..1152, straight 1153..1162, three of a kind    *)
(* 1163..2020, two pair 2021..2878, pair 2879..3593).                       *)
C13_Window(p) ==
    CASE p = "straight_flushes" -> 1..T4_MAX_STRAIGHT_FLUSH
      [] p = "quads_trips" -> (T4_MAX_STRAIGHT_FLUSH + 1)..T4_MAX_FOUR_OF_A_KIND
      [] p \in {"full_house_trips", "full_house_two_pair"} ->
            (T4_MAX_FOUR_OF_A_KIND + 1)..T4_MAX_FULL_HOUSE
      [] p = "flushes" -> (T4_MAX_FULL_HOUSE + 1)..T4_MAX_FLUSH
      [] p = "straights" -> (T4_MAX_FLUSH + 1)..T4_MAX_STRAIGHT
      [] p = "trips_pair" -> (T4_MAX_STRAIGHT + 1)..T4_MAX_THREE_OF_A_KIND
      [] p = "two_pair_pair" -> (T4_MAX_THREE_OF_A_KIND + 1)..T4_MAX_TWO_PAIR
      [] p = "pair_highcard" -> (T4_MAX_TWO_PAIR + 1)..T4_MAX_PAIR

\* the last pass of each category
C13_LastPasses ==
    {"straight_flushes", "quads_trips", "full_house_two_pair", "flushes",
     "straights", "trips_pair", "two_pair_pair", "pair_highcard"}

C13_FourCardWindows ==
    [][(table = "LookupTableFourCards") =>
          /\ RanksGained(flush, flush') \cup RanksGained(unsuited, unsuited')
                \subseteq C13_Window(pc)
          /\ (pc' # pc /\ pc \in C13_LastPasses) =>
                (rank' - 1 \in C13_Window(pc) /\ rank' \notin C13_Window(pc))
          /\ (pc' = "done") =>
                RanksHeld(flush') \cup RanksHeld(unsuited') = 1..T4_MAX_PAIR]_vars

\* the same, for the passes other than those of build_flushes and
\* build_straights
C13_MultiplesWindows ==
    [][(table = "LookupTableFourCards" /\ pc \in T4_MultiplesPasses) =>
          /\ RanksGained(unsuited, unsuited') \subseteq C13_Window(pc)
          /\ (pc' # pc /\ pc \in C13_LastPasses) =>
                (rank' - 1 \in C13_Window(pc) /\ rank' \notin C13_Window(pc))]_vars

(* C14: in both draw tables no pattern inside a straight window is ranked   *)
(* by the flush pass: for k = 3 (three cards) and k = 4 (four cards), a     *)
(* pattern of k ranks that all lie within five consecutive ranks, or within *)
(* the wheel A-2-3-4-5, has no bare flush rank after construction (the      *)
(* flush pass is the one that stores a bare rank).                          *)

\* the number of cards of the hands a draw table is about
CardCount == IF table = "LookupTableThreeCards" THEN 3 ELSE 4

\* the sets of five ranks in sequence
StraightWindows == {S \in SUBSET RankIndices : IsStraightRanks(S)}

\* the sets of n ranks inside a straight window
C14_WindowPatterns(n) ==
    UNION {{S \in SUBSET W : Cardinality(S) = n} : W \in StraightWindows}

\* the list of patterns the flush loop of the table goes through
C14_Flushes ==
    IF table = "LookupTableThreeCards" THEN T3_flushes ELSE T4_flushes

C14_NoFlushRankInWindow ==
    DT_Built =>
       \A S \in C14_WindowPatterns(CardCount) :
          /\ PatternOf(S) \notin Range(C14_Flushes)
          /\ (PrimeProductOf(S) \in DOMAIN flush) =>
                flush[PrimeProductOf(S)].type # "int"

\* the same, for the three-card table alone
C14_ThreeCards ==
    (DT_Built /\ table = "LookupTableThreeCards") => C14_NoFlushRankInWindow

(* C15: every key of a draw table is the prime product of as many ranks as  *)
(* the table has cards: after construction every key of flush and of        *)
(* unsuited has exactly 3 prime factors, counted with multiplicity, in the  *)
(* three-card table and exactly 4 in the four-card table.                   *)

\* the number of prime factors of n among PRIMES, counted with multiplicity
\* (-1 when n has another factor)
FactorCount(n) ==
    IF n = PrimeProductOf({i \in RankIndices : Exponent(n, Prime(i)) >= 1})
              * PrimeProductOf({i \in RankIndices : Exponent(n, Prime(i)) >= 2})
              * PrimeProductOf({i \in RankIndices : Exponent(n, Prime(i)) >= 3})
              * PrimeProductOf({i \in RankIndices : Exponent(n, Prime(i)) >= 4})
    THEN Cardinality({i \in RankIndices : Exponent(n, Prime(i)) >= 1})
           + Cardinality({i \in RankIndices : Exponent(n, Prime(i)) >= 2})
           + Cardinality({i \in RankIndices : Exponent(n, Prime(i)) >= 3})
           + Cardinality({i \in RankIndices : Exponent(n, Prime(i)) >= 4})
    ELSE -1

C15_KeysHaveCardCountFactors ==
    DT_Built =>
       \A k \in DOMAIN flush \cup DOMAIN unsuited : FactorCount(k) = CardCount

\* the same, for the three-card table alone
C15_ThreeCards ==
    (DT_Built /\ table = "LookupTableThreeCards") =>
       C15_KeysHaveCardCountFactors

(* C16: in both draw tables, after construction every list-valued entry of  *)
(* flush and of unsuited is strictly increasing, so no rank occurs twice in *)
(* the list of a signature.                                                 *)

StrictlyIncreasing(l) == \A j \in 1..(Len(l) - 1) : l[j] < l[j + 1]

C16_ListsIncrease(d) ==
    \A k \in DOMAIN d : (d[k].type = "list") => StrictlyIncreasing(d[k].v)

C16_ListsStrictlyIncreasing ==
    DT_Built => (C16_ListsIncrease(flush) /\ C16_ListsIncrease(unsuited))

\* the same, for the three-card table alone
C16_ThreeCards ==
    (DT_Built /\ table = "LookupTableThreeCards") =>
       C16_ListsStrictlyIncreasing

=============================================================================
